---- MODULE Spec2Model ----
(***************************************************************************)
(* A model of the blog editor's text cache (TextCache), the cache-backed   *)
(* editor buffer (MarkdownEditor.setPlainText / toPlainText) and the       *)
(* frontmatter writer / reader (FileManager.save_blog, import_markdown,    *)
(* MarkdownEditor.import_markdown), of BlogEditor.save_blog and            *)
(* update_preview, of the autosave and of the tools of the window          *)
(* (statistics, save directory, unique file names).                        *)
(*                                                                         *)
(* A text is a sequence of one-character strings.  Python's None is the    *)
(* value NoneVal, which is no text and no cache key.                       *)
(***************************************************************************)
EXTENDS Integers, Sequences, FiniteSets, TLC

VARIABLES
    buffer,             \* QTextEdit's own document text (super().toPlainText())
    current_cache_key,  \* MarkdownEditor.current_cache_key
    cache_exists,       \* whether TextCache.cache_dir exists on disk
    cache_files,        \* the files of cache_dir: name -> [ok, chunks, mtime, seq, clean]
    clock,              \* the file system's modification-time clock
    nwrites,            \* number of save_to_cache calls that created or rewrote a file
    io_failed,          \* history: some file operation of the cache has raised
    last,               \* what the last operation was given and what it returned
    disk_file,          \* the content of the markdown file written and imported
    saved,              \* what the last FileManager.save_blog was given and did
    imported,           \* what the last import read and returned
    form,               \* the fields of the window: title, tags, cover image, save path ...
    bsave,              \* what the last BlogEditor.save_blog read and did
    preview,            \* what the last update_preview read and produced
    stats,              \* what the last update_statistics read and counted
    chosen,             \* what the last select_save_path was given and did
    unique,             \* what the last ensure_unique_filename was given and returned
    asaver,             \* AutoSaver.last_content, last_metadata; whether the window was closed;
                        \* history: the texts and metadata its ticks captured
    afiles,             \* auto_save_dir: whether it exists, content.md, metadata.json
    atick,              \* what the last autosave tick read and did
    restored,           \* what the last try_restore found and returned
    config              \* config_manager.config: 'save_path' and the auto_save_* entries, and
                        \* what the configuration file holds of them

edvars == <<buffer, current_cache_key, cache_exists, cache_files, clock, nwrites,
            io_failed, last>>

fmvars == <<disk_file, saved, imported>>

wvars == <<form, bsave, preview, stats, chosen, unique>>

avars == <<asaver, afiles, atick, restored, config>>

vars == <<edvars, fmvars, wvars, avars>>

-----------------------------------------------------------------------------
(* Bounds of the model *)

\* longest text the editor is given
MaxLen == 3
\* the modification-time clock advances at most this many times
MaxClock == 1
\* at most this many cache files are written in one run
MaxWrites == 3
MaxStr == 2
MaxBody == 2
\* at most this many image references in a body
MaxRefs == 2
\* at most this many autosave ticks in one run
MaxTicks == 2
\* the folders hold the numbered names up to this number
MaxFiles == 2

\* the characters of the texts
Alphabet == {"a", "b"}

\* TextCache.cache_size (10 in the source, scaled so that eviction is reached)
cache_size == 2
\* TextCache.chunk_size (50000 in the source, scaled so that texts span chunks)
chunk_size == 2

NoneVal == <<"None">>

\* the texts setPlainText is given: "", "a", "ab", "aba", ...
Pattern(n) == [i \in 1..n |-> IF i % 2 = 1 THEN "a" ELSE "b"]

Texts == {Pattern(n) : n \in 0..MaxLen}

-----------------------------------------------------------------------------
(* TextCache *)

\* a key that also depends on the state of the process
get_cache_key_counter(text) == <<"md5", ToString(nwrites)>> \o text

\* hashlib.md5(text.encode('utf-8')).hexdigest(): a digest of the content
\* alone, taken to be free of collisions
get_cache_key(text) == <<"md5">> \o text

\* [text[i:i + chunk_size] for i in range(0, len(text), chunk_size)]
Min(a, b) == IF a <= b THEN a ELSE b

chunks_of(text) ==
    LET n == (Len(text) + chunk_size - 1) \div chunk_size
    IN  [k \in 1..n |->
            SubSeq(text, (k - 1) * chunk_size + 1, Min(k * chunk_size, Len(text)))]

\* ''.join(chunks)
RECURSIVE join(_)
join(chunks) ==
    IF chunks = <<>> THEN <<>> ELSE Head(chunks) \o join(Tail(chunks))

\* a load_from_cache without its try: the exception of json.load comes out
load_from_unguarded(exists, files, cache_key) ==
    IF exists /\ cache_key \in DOMAIN files
    THEN (IF files[cache_key].ok THEN join(files[cache_key].chunks)
          ELSE <<"JSONDecodeError">>)
    ELSE NoneVal

\* TextCache.load_from_cache against a given directory state: the text of the
\* file; None when there is no such file or when reading it raises
load_from(exists, files, cache_key) ==
    IF exists /\ cache_key \in DOMAIN files /\ files[cache_key].ok
    THEN join(files[cache_key].chunks)
    ELSE NoneVal

load_from_cache(cache_key) == load_from(cache_exists, cache_files, cache_key)

\* the file sets _cleanup_old_cache can leave behind when it runs to the end:
\* os.listdir returns the names in any order, the sort by mtime (descending) is
\* stable, and files[cache_size:] are removed
Survivors(files) ==
    IF Cardinality(DOMAIN files) <= cache_size
    THEN {DOMAIN files}
    ELSE {S \in SUBSET DOMAIN files :
            /\ Cardinality(S) = cache_size
            /\ \A k \in S : \A r \in (DOMAIN files) \ S :
                   files[k].mtime >= files[r].mtime}

\* ... and when an os call in it raises part-way (the except swallows it):
\* the removals made so far, newest first, stay made and the files P stay
PartialSurvivors(files) ==
    UNION {{S \cup P : P \in {Q \in SUBSET ((DOMAIN files) \ S) :
                                 /\ Q # {}
                                 /\ \A r \in ((DOMAIN files) \ S) \ Q : \A q \in Q :
                                        files[r].mtime >= files[q].mtime}} :
           S \in Survivors(files)}

Restrict(files, S) == [k \in S |-> files[k]]

\* The fields seq and clean of a file are history, not file content: seq numbers
\* the writes in the order they were made, and clean tells that the file was
\* written by a call without I/O error and that no call since had one.

\* the file save_to_cache writes: json.dump({'chunks': ..., 'timestamp': ...})
NewFile(text, clean) ==
    [ok |-> TRUE, chunks |-> chunks_of(text), mtime |-> clock, seq |-> nwrites + 1,
     clean |-> clean]

\* a file whose write stopped part-way: no complete JSON document
PartialFile ==
    [ok |-> FALSE, chunks |-> <<>>, mtime |-> clock, seq |-> nwrites + 1,
     clean |-> FALSE]

Unclean(files) == [k \in DOMAIN files |-> [files[k] EXCEPT !.clean = FALSE]]

Put(files, name, f) ==
    [k \in (DOMAIN files) \cup {name} |-> IF k = name THEN f ELSE files[k]]

\* a save_to_cache whose handler hands the key back although the write raised
save_to_cache_keeps_key(text) ==
    LET cache_key == get_cache_key(text)
        written   == Put(cache_files, cache_key, NewFile(text, TRUE))
    IN  {[ret |-> cache_key, files |-> Unclean(cache_files), io |-> "open",
          evicted |-> <<>>]}
        \cup
        (IF cache_exists
         THEN {[ret |-> cache_key,
                files |-> Put(Unclean(cache_files), cache_key, PartialFile),
                io |-> "write", evicted |-> <<>>]}
              \cup
              {[ret |-> cache_key, files |-> Restrict(written, S), io |-> "none",
                evicted |-> Restrict(written, (DOMAIN written) \ S)] :
                  S \in Survivors(written)}
         ELSE {})

\* TextCache.save_to_cache(text): the outcomes [ret, files, io, evicted], one per
\* way the file system can answer.  ret is the value returned, files the
\* directory afterwards, io the step that raised ("none", "open", "write",
\* "cleanup") and evicted the files _cleanup_old_cache removed.
save_to_cache(text) ==
    LET cache_key == get_cache_key(text)
        written   == Put(cache_files, cache_key, NewFile(text, TRUE))
        failed    == Put(Unclean(cache_files), cache_key, NewFile(text, FALSE))
    IN  \* get_cache_key or open(cache_file, 'w') raises: nothing is written
        {[ret |-> NoneVal, files |-> Unclean(cache_files), io |-> "open",
          evicted |-> <<>>]}
        \cup
        (IF cache_exists
         THEN \* the write raises after the file was created or truncated
              {[ret |-> NoneVal,
                files |-> Put(Unclean(cache_files), cache_key, PartialFile),
                io |-> "write", evicted |-> <<>>]}
              \cup
              \* the write succeeds and the cleanup runs to its end
              {[ret |-> cache_key, files |-> Restrict(written, S), io |-> "none",
                evicted |-> Restrict(written, (DOMAIN written) \ S)] :
                  S \in Survivors(written)}
              \cup
              \* the write succeeds and the cleanup raises part-way
              {[ret |-> cache_key, files |-> Restrict(failed, S), io |-> "cleanup",
                evicted |-> Restrict(failed, (DOMAIN failed) \ S)] :
                  S \in PartialSurvivors(failed) \cup {DOMAIN failed}}
         ELSE {})

\* the cache files that hold text and were written by a call without I/O error
\* with no failing call since
CleanEntries(files, text) ==
    {k \in DOMAIN files : files[k].ok /\ files[k].clean /\ join(files[k].chunks) = text}

\* the cache files that hold text
Entries(files, text) ==
    {k \in DOMAIN files : files[k].ok /\ join(files[k].chunks) = text}

-----------------------------------------------------------------------------
(* MarkdownEditor *)

\* a read that trusts the recorded key and has no fallback to the buffer
toPlainText_nofallback ==
    IF current_cache_key # NoneVal
    THEN load_from_cache(current_cache_key)
    ELSE buffer

\* MarkdownEditor.toPlainText
toPlainText ==
    IF current_cache_key # NoneVal /\ load_from_cache(current_cache_key) # NoneVal
    THEN load_from_cache(current_cache_key)
    ELSE buffer

EditorInit ==
    /\ buffer = <<>>
    /\ current_cache_key = NoneVal
    /\ cache_exists = TRUE
    /\ cache_files = <<>>
    /\ clock = 0
    /\ nwrites = 0
    /\ io_failed = FALSE
    /\ last = [op |-> "init", text |-> <<>>, ret |-> NoneVal, io |-> "none",
               evicted |-> <<>>, first_key |-> NoneVal]

\* MarkdownEditor.setPlainText(text)
setPlainText(text) ==
    /\ nwrites < MaxWrites
    /\ \E out \in save_to_cache(text) :
        /\ current_cache_key' = out.ret
        /\ cache_files' = out.files
        /\ nwrites' = IF out.io = "open" THEN nwrites ELSE nwrites + 1
        /\ io_failed' = (io_failed \/ out.io # "none")
        /\ last' = [op |-> "setPlainText", text |-> text, ret |-> out.ret,
                    io |-> out.io,
                    evicted |-> out.evicted,
                    first_key |-> IF CleanEntries(cache_files, text) = {}
                                  THEN NoneVal
                                  ELSE CHOOSE k \in CleanEntries(cache_files, text) : TRUE]
    /\ buffer' = text
    /\ UNCHANGED <<cache_exists, clock>>

\* an edit that does not go through setPlainText: typing, cursor.insertText
\* from process_image or insert_format
insertText(c) ==
    /\ Len(buffer) < MaxLen
    /\ buffer' = Append(buffer, c)
    /\ last' = [op |-> "insertText", text |-> <<c>>, ret |-> NoneVal, io |-> "none",
                evicted |-> <<>>, first_key |-> NoneVal]
    /\ UNCHANGED <<current_cache_key, cache_exists, cache_files, clock, nwrites,
                   io_failed>>

\* time passes: later writes get a later modification time
Tick ==
    /\ clock < MaxClock
    /\ clock' = clock + 1
    /\ UNCHANGED <<buffer, current_cache_key, cache_exists, cache_files, nwrites,
                   io_failed, last>>

\* a cleanup without the test for the directory and without its try
cleanup_unguarded ==
    IF ~cache_exists
    THEN {[exists |-> FALSE, files |-> <<>>, io |-> "rmtree",
           ret |-> <<"FileNotFoundError">>]}
    ELSE {[exists |-> FALSE, files |-> <<>>, io |-> "none", ret |-> NoneVal]}
         \cup {[exists |-> TRUE, files |-> Restrict(cache_files, S), io |-> "rmtree",
                 ret |-> <<"OSError">>] : S \in SUBSET DOMAIN cache_files}

\* the ways TextCache.cleanup can end, [exists, files, io, ret]: there is no
\* directory and nothing is done; rmtree removes the directory with all its
\* files; rmtree raises after it removed some files, none or all of them,
\* and the exception is printed.  ret is None or the exception that comes out.
cleanup_outcomes ==
    IF ~cache_exists
    THEN {[exists |-> FALSE, files |-> <<>>, io |-> "none", ret |-> NoneVal]}
    ELSE {[exists |-> FALSE, files |-> <<>>, io |-> "none", ret |-> NoneVal]}
         \cup {[exists |-> TRUE, files |-> Restrict(cache_files, S), io |-> "rmtree",
                 ret |-> NoneVal] : S \in SUBSET DOMAIN cache_files}

\* TextCache.cleanup
cleanup ==
    /\ \E out \in cleanup_outcomes :
        /\ cache_exists' = out.exists
        /\ cache_files' = IF out.io = "none" THEN out.files ELSE Unclean(out.files)
        /\ io_failed' = (io_failed \/ out.io # "none")
        /\ last' = [op |-> "cleanup", text |-> <<>>, ret |-> out.ret, io |-> out.io,
                    evicted |-> <<>>, first_key |-> NoneVal]
    /\ UNCHANGED <<buffer, current_cache_key, clock, nwrites>>

-----------------------------------------------------------------------------
(* Python strings *)

NL == "\n"

\* the characters str.strip() removes
Whitespace == {" ", "\n", "\t"}

\* the frontmatter delimiter '---'
Delim == <<"-", "-", "-">>

\* s.startswith(p)
startswith(s, p) == Len(p) <= Len(s) /\ SubSeq(s, 1, Len(p)) = p

\* s.find(p) counted from 1: the first place p occurs in s, 0 when none
Find(s, p) ==
    LET hits == {i \in 1..(Len(s) - Len(p) + 1) : SubSeq(s, i, i + Len(p) - 1) = p}
    IN  IF hits = {} THEN 0 ELSE CHOOSE i \in hits : \A j \in hits : i <= j

\* s.split('---', 2)
split_delim(s) ==
    LET i1 == Find(s, Delim)
        r1 == SubSeq(s, i1 + 3, Len(s))
        i2 == Find(r1, Delim)
    IN  IF i1 = 0 THEN <<s>>
        ELSE IF i2 = 0 THEN <<SubSeq(s, 1, i1 - 1), r1>>
        ELSE <<SubSeq(s, 1, i1 - 1), SubSeq(r1, 1, i2 - 1), SubSeq(r1, i2 + 3, Len(r1))>>

\* s.strip(chars)
strip_chars(s, chars) ==
    LET keep == {i \in 1..Len(s) : s[i] \notin chars}
        lo   == CHOOSE i \in keep : \A j \in keep : i <= j
        hi   == CHOOSE i \in keep : \A j \in keep : i >= j
    IN  IF keep = {} THEN <<>> ELSE SubSeq(s, lo, hi)

\* s.strip()
strip(s) == strip_chars(s, Whitespace)

\* s.split('\n')
RECURSIVE splitlines(_)
splitlines(s) ==
    LET i == Find(s, <<NL>>)
    IN  IF i = 0 THEN <<s>>
        ELSE <<SubSeq(s, 1, i - 1)>> \o splitlines(SubSeq(s, i + 1, Len(s)))

\* the concatenation of a sequence of strings
RECURSIVE concat(_)
concat(parts) == IF parts = <<>> THEN <<>> ELSE Head(parts) \o concat(Tail(parts))

-----------------------------------------------------------------------------
(* The values yaml.dump takes and yaml.safe_load returns.  A mapping is a     *)
(* function from keys (strings) to values.  YamlError stands for the          *)
(* exception safe_load raises; Unsupported marks YAML outside the block       *)
(* subset modelled here (no document of the model reaches it).                *)

Str(s)    == [kind |-> "str",  str |-> s,    items |-> <<>>, fields |-> <<>>]
List(xs)  == [kind |-> "list", str |-> <<>>, items |-> xs,   fields |-> <<>>]
Map(f)    == [kind |-> "map",  str |-> <<>>, items |-> <<>>, fields |-> f]
PyNone    == [kind |-> "null", str |-> <<>>, items |-> <<>>, fields |-> <<>>]
YamlError == [kind |-> "error", str |-> <<>>, items |-> <<>>, fields |-> <<>>]
Unsupported == [kind |-> "unsupported", str |-> <<>>, items |-> <<>>, fields |-> <<>>]
\* a datetime.date, which a plain scalar yyyy-mm-dd resolves to; str is its text
Date(s)   == [kind |-> "date", str |-> s,    items |-> <<>>, fields |-> <<>>]

Failed(v) == v.kind \in {"error", "unsupported"}

\* the keys of the frontmatter, in the order yaml.dump(sort_keys=True) writes them
k_color     == <<"c", "o", "l", "o", "r">>
k_heroImage == <<"h", "e", "r", "o", "I", "m", "a", "g", "e">>
k_src       == <<"s", "r", "c">>
k_tags      == <<"t", "a", "g", "s">>
k_title     == <<"t", "i", "t", "l", "e">>

KeyOrder == <<k_color, k_heroImage, k_src, k_tags, k_title>>

Spaces(n) == [i \in 1..n |-> " "]

-----------------------------------------------------------------------------
(* yaml.dump(metadata, allow_unicode=True, default_flow_style=False), for     *)
(* mappings of strings, lists of strings and mappings of strings              *)

\* whether the emitter writes the string as a plain scalar (block context):
\* not when it is empty, has a leading or trailing space, starts with '---',
\* starts with an indicator, or holds ': ' or a final ':'
plain_ok(s) ==
    /\ s # <<>>
    /\ s[1] # " " /\ s[Len(s)] # " "
    /\ ~startswith(s, Delim)
    /\ s[1] # "'"
    /\ ~(s[1] \in {"-", ":"} /\ (Len(s) = 1 \/ s[2] = " "))
    /\ \A i \in 1..Len(s) : s[i] = ":" => (i < Len(s) /\ s[i + 1] # " ")

\* the text of a single-quoted scalar: every ' is doubled
RECURSIVE quote_escape(_)
quote_escape(s) ==
    IF s = <<>> THEN <<>>
    ELSE (IF Head(s) = "'" THEN <<"'", "'">> ELSE <<Head(s)>>) \o quote_escape(Tail(s))

dump_scalar(s) ==
    IF plain_ok(s) THEN s ELSE <<"'">> \o quote_escape(s) \o <<"'">>

RECURSIVE dump_items(_, _)
dump_items(xs, ind) ==
    IF xs = <<>> THEN <<>>
    ELSE Spaces(ind) \o <<"-", " ">> \o dump_scalar(Head(xs).str) \o <<NL>>
         \o dump_items(Tail(xs), ind)

RECURSIVE dump_map(_, _, _)
dump_map(f, ind, i) ==
    IF i > Len(KeyOrder) THEN <<>>
    ELSE LET k == KeyOrder[i]
             v == f[k]
         IN  (IF k \notin DOMAIN f THEN <<>>
              ELSE IF v.kind = "str"
                   THEN Spaces(ind) \o k \o <<":", " ">> \o dump_scalar(v.str) \o <<NL>>
              ELSE IF v.kind = "list"
                   THEN Spaces(ind) \o k \o <<":", NL>> \o dump_items(v.items, ind)
              ELSE Spaces(ind) \o k \o <<":", NL>> \o dump_map(v.fields, ind + 2, 1))
             \o dump_map(f, ind, i + 1)

yaml_dump(m) == dump_map(m.fields, 0, 1)

-----------------------------------------------------------------------------
(* yaml.safe_load(text), for the block style yaml.dump writes and the lines    *)
(* BlogEditor.save_blog writes: mappings of plain and single-quoted scalars,  *)
(* of dates, of lists of scalars, of block mappings and of flow mappings      *)

\* the place where a single-quoted scalar that opens at s[1] closes, 0 when it
\* does not close; '' inside is a quote character
RECURSIVE quote_end(_, _)
quote_end(s, j) ==
    IF j > Len(s) THEN 0
    ELSE IF s[j] # "'" THEN quote_end(s, j + 1)
    ELSE IF j < Len(s) /\ s[j + 1] = "'" THEN quote_end(s, j + 2)
    ELSE j

RECURSIVE quote_unescape(_)
quote_unescape(s) ==
    IF s = <<>> THEN <<>>
    ELSE IF Head(s) = "'" THEN <<"'">> \o quote_unescape(Tail(Tail(s)))
    ELSE <<Head(s)>> \o quote_unescape(Tail(s))

\* the place of the ':' that ends a key: the first ':' followed by a space or
\* by the end of the line; 0 when there is none
KeySep(b) ==
    LET hits == {i \in 1..Len(b) : b[i] = ":" /\ (i = Len(b) \/ b[i + 1] = " ")}
    IN  IF hits = {} THEN 0 ELSE CHOOSE i \in hits : \A j \in hits : i <= j

\* a line that opens a block sequence entry
IsItem(b) == b = <<"-">> \/ startswith(b, <<"-", " ">>)

\* a single-quoted scalar t that closes at e: nothing may follow the quote
quoted_scalar(t, e) ==
    IF e = 0 \/ e < Len(t) THEN YamlError
    ELSE Str(quote_unescape(SubSeq(t, 2, e - 1)))

\* a plain scalar that the timestamp resolver takes: yyyy-mm-dd
IsDate(t) ==
    /\ Len(t) = 10
    /\ \A i \in 1..10 : IF i \in {5, 8} THEN t[i] = "-" ELSE t[i] \in {"0", "1", "2", "3", "4", "5", "6", "7", "8", "9"}

\* the first place at or after j where t has no space; Len(t) + 1 if none
RECURSIVE skip_spaces(_, _)
skip_spaces(t, j) ==
    IF j <= Len(t) /\ t[j] = " " THEN skip_spaces(t, j + 1) ELSE j

\* a flow mapping { key: 'value', ... } on one line, read from place j on,
\* where a key is expected: keys are plain, values single-quoted
RECURSIVE FlowEntries(_, _, _)

\* key k was read, its value opens with the quote at place q and closes at e:
\* a ',' or the '}' follows
FlowValue(t, acc, k, q, e, nxt) ==
    IF e = 0 \/ nxt > Len(t) THEN [v |-> Unsupported, n |-> 0]
    ELSE IF t[nxt] = ","
    THEN FlowEntries(t, nxt + 1,
             [key \in (DOMAIN acc) \cup {k} |->
                 IF key = k THEN Str(quote_unescape(SubSeq(t, q + 1, e - 1)))
                 ELSE acc[key]])
    ELSE IF t[nxt] = "}" /\ nxt = Len(t)
    THEN [v |-> Map([key \in (DOMAIN acc) \cup {k} |->
                 IF key = k THEN Str(quote_unescape(SubSeq(t, q + 1, e - 1)))
                 ELSE acc[key]]), n |-> 0]
    ELSE [v |-> Unsupported, n |-> 0]

\* the key that starts at place j ends at the ':' at place j + c - 1
FlowKey(t, j, acc, c, q) ==
    IF c = 0 \/ q > Len(t) \/ t[q] # "'" THEN [v |-> Unsupported, n |-> 0]
    ELSE FlowValue(t, acc, SubSeq(t, j, j + c - 2), q, quote_end(t, q + 1),
                   skip_spaces(t, quote_end(t, q + 1) + 1))

FlowEntries(t, j, acc) ==
    FlowKey(t, skip_spaces(t, j), acc,
            KeySep(SubSeq(t, skip_spaces(t, j), Len(t))),
            skip_spaces(t, skip_spaces(t, j)
                           + KeySep(SubSeq(t, skip_spaces(t, j), Len(t)))))

\* a scalar or a flow mapping on one line, the spaces around it removed:
\* nothing is null, a plain scalar is no sequence entry and holds no ': '
stripped_scalar(t) ==
    IF t = <<>> THEN PyNone
    ELSE IF t[1] = "'" THEN quoted_scalar(t, quote_end(t, 2))
    ELSE IF t[1] = "{" THEN FlowEntries(t, 2, <<>>).v
    ELSE IF IsItem(t) \/ KeySep(t) # 0 THEN YamlError
    ELSE IF IsDate(t) THEN Date(t)
    ELSE Str(t)

\* whether the text opens a single-quoted scalar that its line does not close
OpensQuote(t) == t # <<>> /\ t[1] = "'" /\ quote_end(t, 2) = 0

\* the lines of a document that are not blank, each with its indentation
Indent(l) ==
    LET non == {i \in 1..Len(l) : l[i] # " "}
    IN  IF non = {} THEN Len(l) ELSE (CHOOSE i \in non : \A j \in non : i <= j) - 1

RECURSIVE yaml_lines_gap(_, _)
yaml_lines_gap(ls, g) ==
    IF ls = <<>> THEN <<>>
    ELSE IF strip_chars(Head(ls), {" "}) = <<>> THEN yaml_lines_gap(Tail(ls), g + 1)
    ELSE <<[ind |-> Indent(Head(ls)), body |-> strip_chars(Head(ls), {" "}), gap |-> g]>>
         \o yaml_lines_gap(Tail(ls), 0)

\* the lines that are not blank, each with its indentation, its text without
\* the surrounding spaces and the number of blank lines before it
yaml_lines(ls) == yaml_lines_gap(ls, 0)

\* a single-quoted scalar is open at the end of line j - 1 with the text acc:
\* it goes on over the line breaks, folded, and closes at the first lone quote
\* of a later line.  What follows the quote on that line, unless a comment,
\* is an error; so is the end of the text.  The line break before line j
\* folds to br: a space, or one line feed for each blank line.
RECURSIVE open_quote(_, _, _)

quote_closes(L, j, acc, b, e, br) ==
    IF e = 0 THEN open_quote(L, j + 1, acc \o br \o quote_unescape(b))
    ELSE IF e = Len(b) \/ (b[e + 1] = " " /\ b[skip_spaces(b, e + 1)] = "#")
    THEN [v |-> Str(acc \o br \o quote_unescape(SubSeq(b, 1, e - 1))), n |-> j + 1]
    ELSE [v |-> YamlError, n |-> j]

open_quote(L, j, acc) ==
    IF j > Len(L) THEN [v |-> YamlError, n |-> j]
    ELSE quote_closes(L, j, acc, L[j].body, quote_end(L[j].body, 1),
                      IF L[j].gap = 0 THEN <<" ">> ELSE [i \in 1..L[j].gap |-> NL])

RECURSIVE ParseSeq(_, _, _, _), ParseMap(_, _, _, _)

\* the entry of line i has the value sv
SeqItemValue(L, i, ind, acc, sv) ==
    IF Failed(sv) THEN [v |-> sv, n |-> i]
    ELSE ParseSeq(L, i + 1, ind, Append(acc, sv))

\* the entry's quoted scalar ran over the lines before r.n
SeqItemOpen(L, ind, acc, r) ==
    IF Failed(r.v) THEN r
    ELSE ParseSeq(L, r.n, ind, Append(acc, r.v))

\* the entry of line i has the text t: a scalar, nothing nested
SeqItem(L, i, ind, acc, t) ==
    IF t # <<>> /\ t[1] # "'" /\ (IsItem(t) \/ KeySep(t) # 0)
    THEN [v |-> Unsupported, n |-> i]
    ELSE IF OpensQuote(t) THEN SeqItemOpen(L, ind, acc, open_quote(L, i + 1, quote_unescape(SubSeq(t, 2, Len(t)))))
    ELSE SeqItemValue(L, i, ind, acc, stripped_scalar(t))

\* the entries of a block sequence at indentation ind, from line i on; n is
\* the first line that is not part of it
ParseSeq(L, i, ind, acc) ==
    IF i <= Len(L) /\ L[i].ind > ind THEN [v |-> Unsupported, n |-> i]
    ELSE IF i > Len(L) \/ L[i].ind # ind \/ ~IsItem(L[i].body)
    THEN [v |-> List(acc), n |-> i]
    ELSE SeqItem(L, i, ind, acc,
                 strip_chars(SubSeq(L[i].body, 2, Len(L[i].body)), {" "}))

\* the value of a key whose line i holds none: the block sequence or the
\* deeper block mapping on the lines that follow, or null
BlockValue(L, i, ind) ==
    IF i < Len(L) /\ IsItem(L[i + 1].body) /\ L[i + 1].ind >= ind
    THEN ParseSeq(L, i + 1, L[i + 1].ind, <<>>)
    ELSE IF i < Len(L) /\ L[i + 1].ind > ind
    THEN ParseMap(L, i + 1, L[i + 1].ind, <<>>)
    ELSE [v |-> PyNone, n |-> i + 1]

\* key k has the value r.v and the mapping goes on at line r.n; folded: a
\* deeper line continues a scalar
MapPut(L, ind, acc, k, r, folded) ==
    IF Failed(r.v) THEN r
    ELSE IF folded THEN [v |-> Unsupported, n |-> r.n]
    ELSE ParseMap(L, r.n, ind,
                  [key \in (DOMAIN acc) \cup {k} |-> IF key = k THEN r.v ELSE acc[key]])

\* line i is key k with the text vt after the ':'
MapEntry(L, i, ind, acc, k, vt) ==
    IF k = <<>> \/ k[1] = "'" THEN [v |-> Unsupported, n |-> i]
    ELSE IF OpensQuote(vt)
    THEN MapPut(L, ind, acc, k, open_quote(L, i + 1, quote_unescape(SubSeq(vt, 2, Len(vt)))), FALSE)
    ELSE IF vt # <<>>
    THEN MapPut(L, ind, acc, k, [v |-> stripped_scalar(vt), n |-> i + 1],
                i < Len(L) /\ L[i + 1].ind > ind)
    ELSE MapPut(L, ind, acc, k, BlockValue(L, i, ind), FALSE)

\* line i has the text b and its key ends at c
MapKey(L, i, ind, acc, b, c) ==
    IF c = 0 THEN [v |-> YamlError, n |-> i]
    ELSE MapEntry(L, i, ind, acc, strip_chars(SubSeq(b, 1, c - 1), {" "}),
                  strip_chars(SubSeq(b, c + 1, Len(b)), {" "}))

\* the entries of a block mapping at indentation ind, from line i on
ParseMap(L, i, ind, acc) ==
    IF i > Len(L) \/ L[i].ind < ind THEN [v |-> Map(acc), n |-> i]
    ELSE IF L[i].ind > ind \/ IsItem(L[i].body) THEN [v |-> YamlError, n |-> i]
    ELSE MapKey(L, i, ind, acc, L[i].body, KeySep(L[i].body))

\* the document is r.v if every line was read
document_value(L, r) ==
    IF Failed(r.v) THEN r.v
    ELSE IF r.n <= Len(L) THEN YamlError
    ELSE r.v

\* the document of the lines L: nothing, a sequence, a scalar or a mapping
yaml_document(L) ==
    IF L = <<>> THEN PyNone
    ELSE IF IsItem(L[1].body) THEN document_value(L, ParseSeq(L, 1, L[1].ind, <<>>))
    ELSE IF KeySep(L[1].body) = 0
         THEN IF Len(L) = 1 THEN stripped_scalar(L[1].body) ELSE Unsupported
    ELSE document_value(L, ParseMap(L, 1, L[1].ind, <<>>))

yaml_safe_load(text) == yaml_document(yaml_lines(splitlines(text)))

-----------------------------------------------------------------------------
(* Documents and metadata *)

\* the pieces metadata strings are built from, the delimiter among them
StrAtoms == {<<"a">>, Delim, <<":">>, <<"'">>, <<" ">>}

\* the pieces bodies are built from
BodyAtoms == {<<"a">>, <<NL>>, Delim}

\* the concatenations of at most n pieces
RECURSIVE Compose(_, _)
Compose(atoms, n) ==
    IF n = 0 THEN {<<>>}
    ELSE Compose(atoms, n - 1)
         \cup {x \o y : x \in Compose(atoms, n - 1), y \in atoms}

StrVals == Compose(StrAtoms, MaxStr)

\* bodies: texts that do not start with the delimiter
Bodies == {b \in Compose(BodyAtoms, MaxBody) : ~startswith(b, Delim)}

a_tags == List(<<Str(<<"a">>), Str(<<"-">>)>>)
a_hero == Map([k \in {k_src} |-> Str(<<"a">>)])

\* metadata mappings: a title alone, and a title with tags and a nested mapping
Metas ==
    {Map([k \in {k_title} |-> Str(t)]) : t \in StrVals}
    \cup {Map([k \in {k_title, k_tags} |->
                  IF k = k_tags THEN a_tags ELSE Str(<<"a">>)]),
          Map([k \in {k_title, k_heroImage} |->
                  IF k = k_heroImage THEN a_hero ELSE Str(<<"a">>)]),
          Map([k \in {k_title, k_tags, k_heroImage} |->
                  IF k = k_tags THEN a_tags
                  ELSE IF k = k_heroImage THEN a_hero ELSE Str(<<"a">>)])}

line_title == <<"t", "i", "t", "l", "e", ":", " ">>

\* texts between two delimiters: one that parses, an open quote, a mapping
\* inside a plain value, a sequence entry as a value
Blocks ==
    {<<NL>> \o line_title \o <<"a", NL>>,
     <<NL>> \o line_title \o <<"'", "a", NL>>,
     <<NL>> \o line_title \o <<"a", ":", " ", "a", NL>>,
     <<NL>> \o line_title \o <<"-", " ", "a", NL>>}

\* the files an import can find on disk before anything is saved
RawDocs ==
    Bodies
    \cup {Delim \o x : x \in Bodies \cup Blocks}
    \cup {Delim \o blk \o Delim \o b : blk \in Blocks, b \in Bodies}

NoSave ==
    [done |-> FALSE, raised |-> FALSE, content |-> <<>>, metadata |-> PyNone,
     fail |-> "none", error |-> "none", message |-> <<>>, returned |-> "nothing"]

NoImport == [by |-> "none", read_ok |-> FALSE, raised |-> FALSE, body |-> <<>>,
             meta |-> PyNone, src |-> <<>>, from_save |-> FALSE]

-----------------------------------------------------------------------------
(* FileManager *)

\* FileManager._generate_frontmatter(metadata)
generate_frontmatter(metadata) == yaml_dump(metadata)

\* what the four f.write calls of save_blog put in index.md, one after another
save_writes(content, metadata) ==
    <<<<"-", "-", "-", NL>>, generate_frontmatter(metadata),
      <<"-", "-", "-", NL, NL>>, content>>

\* the prefix save_blog puts before the message of the cause
m_save_failed == "save_blog failed: "

\* the exception raised inside the try of save_blog when step fail fails:
\* its own FileOperationError when no save path is set, else an error of the
\* operating system with its message ("[Errno 13] Permission denied: ...")
raised_in_save(fail) ==
    IF fail = "none" THEN [type |-> "none", message |-> <<>>]
    ELSE IF fail = "unset"
    THEN [type |-> "FileOperationError", message |-> <<"save path is not set">>]
    ELSE [type |-> "OSError", message |-> <<"[Errno] strerror: path">>]

\* a save_blog that lets the exceptions of the file system through as they are
save_blog_reraises(exc) == exc

\* except Exception as e: raise FileOperationError(f"...: {str(e)}")
save_blog_wraps(exc) ==
    IF exc.type = "none" THEN exc
    ELSE [type |-> "FileOperationError", message |-> <<m_save_failed>> \o exc.message]

\* the wrapper of handle_errors around a call of a FileManager method that
\* ended with exc.  With an error_handler on the object the exception would
\* be handed to it and the call return None; FileManager.__init__ sets
\* self.config and nothing else, hasattr(args[0], 'error_handler') is False
\* and the exception is raised again.
handle_errors(exc) ==
    IF exc.type = "none"
    THEN [error |-> "none", message |-> <<>>, returned |-> "article_folder"]
    ELSE [error |-> exc.type, message |-> exc.message, returned |-> "nothing"]

\* what the caller of save_blog gets when step fail failed and the call
\* ended with out
save_result(content, metadata, fail, out) ==
    [done |-> TRUE, raised |-> out.error # "none",
     content |-> IF fail = "none" THEN content ELSE <<>>,
     metadata |-> IF fail = "none" THEN metadata ELSE PyNone,
     fail |-> fail, error |-> out.error, message |-> out.message,
     returned |-> out.returned]

\* FileManager.save_blog(folder_name, content, metadata, images) with no
\* images.  fail = "none": index.md is written whole.  fail = "unset": no save
\* path is configured; "makedirs": the folder cannot be created; "open": the
\* file cannot be opened: nothing is written.  fail = "write": the n-th write
\* fails and the file keeps what was written before it.  A run saves the
\* article at most once, into a folder that holds no text yet, and before it
\* imports anything.
FileManager_save_blog(content, metadata) ==
    /\ ~saved.done /\ imported.by = "none" /\ disk_file = <<>>
    /\ \E fail \in {"none", "unset", "makedirs", "open", "write"} : \E n \in 1..4 :
        /\ fail = "write" \/ n = 4
        /\ disk_file' = IF fail \in {"unset", "makedirs", "open"} THEN disk_file
                        ELSE IF fail = "write"
                             THEN concat(SubSeq(save_writes(content, metadata), 1, n - 1))
                        ELSE concat(save_writes(content, metadata))
        /\ saved' = save_result(content, metadata, fail,
                                handle_errors(save_blog_wraps(raised_in_save(fail))))
    /\ imported' = NoImport
    /\ UNCHANGED edvars

\* the document has two delimiters: the text between them is parsed
split_result(frontmatter, content, meta) ==
    [raises |-> FALSE, failed |-> Failed(meta), frontmatter |-> frontmatter,
     content |-> content, metadata |-> IF Failed(meta) THEN PyNone ELSE meta]

\* _, frontmatter, content = content.split('---', 2): a ValueError when the
\* split gives fewer than three parts
split_parts(parts) ==
    IF Len(parts) < 3
    THEN [raises |-> TRUE, failed |-> FALSE, frontmatter |-> <<>>,
          content |-> <<>>, metadata |-> PyNone]
    ELSE split_result(parts[2], parts[3], yaml_safe_load(parts[2]))

\* the split both importers make of a document that was read: raises is the
\* ValueError of a document with no second delimiter, failed an exception of
\* yaml.safe_load
split_frontmatter(content) ==
    IF ~startswith(content, Delim)
    THEN [raises |-> FALSE, failed |-> FALSE, frontmatter |-> <<>>,
          content |-> content, metadata |-> PyNone]
    ELSE split_parts(split_delim(content))

\* whether index.md is what the last save_blog wrote, whole
FromSave == saved.done /\ ~saved.raised

\* FileManager.import_markdown(file_path).  read_ok = FALSE: the file cannot
\* be opened or decoded.  Any exception leaves as FileOperationError.
FileManager_import_markdown ==
    /\ \E read_ok \in BOOLEAN : \E r \in {split_frontmatter(disk_file)} :
        imported' =
            IF ~read_ok \/ r.raises
            THEN [by |-> "FileManager", read_ok |-> read_ok, raised |-> TRUE,
                  body |-> <<>>, meta |-> PyNone,
                  src |-> IF read_ok THEN disk_file ELSE <<>>,
                  from_save |-> FromSave /\ read_ok]
            ELSE [by |-> "FileManager", read_ok |-> TRUE, raised |-> FALSE,
                  body |-> IF r.failed
                           THEN strip(r.frontmatter \o Delim \o r.content)
                           ELSE strip(r.content),
                  meta |-> r.metadata, src |-> disk_file, from_save |-> FromSave]
    /\ UNCHANGED <<edvars, disk_file, saved>>

-----------------------------------------------------------------------------
(* MarkdownEditor.import_markdown *)

\* hasattr(self.parent(), 'update_metadata'): the editor is created without a
\* parent and put in the layout of a plain QWidget, which has no such method
parent_has_update_metadata == FALSE

\* the text the editor import hands to setPlainText: on a failed parse
\* frontmatter + '---' + content, stripped
import_body(r) ==
    IF r.failed THEN strip(r.frontmatter \o Delim \o r.content) ELSE strip(r.content)

\* MarkdownEditor.import_markdown, a file chosen in the dialog.  An exception
\* of the read or of the split is printed and the import stops: the editor
\* keeps its text.  Otherwise the body goes through setPlainText; the metadata
\* reaches the window only if the parent has update_metadata.  A run imports
\* into an editor that was not given a text before.
MarkdownEditor_import_markdown ==
    /\ last.op = "init"
    /\ \E read_ok \in BOOLEAN : \E r \in {split_frontmatter(disk_file)} :
        IF ~read_ok \/ r.raises
        THEN /\ imported' = [by |-> "MarkdownEditor", read_ok |-> read_ok,
                             raised |-> TRUE, body |-> <<>>, meta |-> PyNone,
                             src |-> IF read_ok THEN disk_file ELSE <<>>,
                             from_save |-> FromSave /\ read_ok]
             /\ UNCHANGED <<edvars, disk_file, saved>>
        ELSE \E text \in {import_body(r)} :
             /\ setPlainText(text)
             /\ imported' = [by |-> "MarkdownEditor", read_ok |-> TRUE,
                             raised |-> FALSE, body |-> text,
                             meta |-> IF parent_has_update_metadata
                                      THEN r.metadata ELSE PyNone,
                             src |-> disk_file, from_save |-> FromSave]
             /\ UNCHANGED <<disk_file, saved>>

-----------------------------------------------------------------------------
(* The text BlogEditor.save_blog writes *)

k_description == <<"d", "e", "s", "c", "r", "i", "p", "t", "i", "o", "n">>
k_language    == <<"l", "a", "n", "g", "u", "a", "g", "e">>

\* os.path.basename(path)
basename(path) ==
    LET slashes == {i \in 1..Len(path) : path[i] = "/"}
        last_slash == CHOOSE i \in slashes : \A j \in slashes : i >= j
    IN  IF slashes = {} THEN path ELSE SubSeq(path, last_slash + 1, Len(path))

\* frontmatter['heroImage']['src']
hero_src(image_path) ==
    IF image_path = <<>> THEN <<>> ELSE <<".", "/">> \o basename(image_path)

\* the frontmatter dict save_blog builds of the form f
frontmatter(f) ==
    Map([k \in {k_title, <<"p", "u", "b", "l", "i", "s", "h", "D", "a", "t", "e">>,
                k_description, k_tags, k_language, k_heroImage} |->
            IF k = k_title THEN Str(f.title)
            ELSE IF k = k_description THEN Str(f.description)
            ELSE IF k = k_tags THEN List([i \in 1..Len(f.tags) |-> Str(f.tags[i])])
            ELSE IF k = k_language THEN Str(f.language)
            ELSE IF k = k_heroImage
            THEN Map([h \in {k_src, k_color} |->
                        IF h = k_src THEN Str(hero_src(f.image_path)) ELSE Str(f.color)])
            ELSE Str(f.date)])

\* md_content of BlogEditor.save_blog for the form f and the body content:
\* the lines '---', title: '...', publishDate: ..., description: '...',
\* tags: and '  - tag' for each tag, language: '...',
\* heroImage: { src: '...', color: '...' }, '---', an empty line, the body
md_content(f, content) ==
    <<"-", "-", "-", NL>>
    \o k_title \o <<":", " ", "'">> \o f.title \o <<"'", NL>>
    \o <<"p", "u", "b", "l", "i", "s", "h", "D", "a", "t", "e", ":", " ">> \o f.date \o <<NL>>
    \o k_description \o <<":", " ", "'">> \o f.description \o <<"'", NL>>
    \o k_tags \o <<":", NL>>
    \o concat([i \in 1..Len(f.tags) |-> <<" ", " ", "-", " ">> \o f.tags[i] \o <<NL>>])
    \o k_language \o <<":", " ", "'">> \o f.language \o <<"'", NL>>
    \o k_heroImage \o <<":", " ", "{", " ">>
    \o k_src \o <<":", " ", "'">> \o hero_src(f.image_path) \o <<"'", ",", " ">>
    \o k_color \o <<":", " ", "'">> \o f.color \o <<"'", " ", "}", NL>>
    \o <<"-", "-", "-", NL, NL>>
    \o content

-----------------------------------------------------------------------------
(* Image references: the pattern of save_blog and update_preview *)

\* s.find(p, from) counted from 1: the first place at or after from where p
\* occurs in s, 0 when none
FindFrom(s, p, from) ==
    LET hits == {i \in from..(Len(s) - Len(p) + 1) : SubSeq(s, i, i + Len(p) - 1) = p}
    IN  IF hits = {} THEN 0 ELSE CHOOSE i \in hits : \A j \in hits : i <= j

\* s.replace(old, new): every occurrence, left to right, none overlapping
RECURSIVE replace(_, _, _)
replace(s, old, new) ==
    IF old = <<>> THEN new \o concat([i \in 1..Len(s) |-> <<s[i]>> \o new])
    ELSE IF Find(s, old) = 0 THEN s
    ELSE SubSeq(s, 1, Find(s, old) - 1) \o new
         \o replace(SubSeq(s, Find(s, old) + Len(old), Len(s)), old, new)

\* the matches of r'!\[(.*?)\]\((.*?)\)' in s from place from on, left to
\* right, each as [at, sep, close].  Tried where a '![' stands (place at),
\* the alternative text ends at the first '](' (place sep) and the path at
\* the first ')' after it (place close), both on the line of the '![',
\* because '.' matches no line feed; a later '](' cannot match when the first
\* one does not.  The search goes on after a match, and one place further
\* where there is none.
RECURSIVE image_refs(_, _)
image_refs(s, from) ==
    LET at == FindFrom(s, <<"!", "[">>, from)
        sep == IF at = 0 THEN 0 ELSE FindFrom(s, <<"]", "(">>, at + 2)
        close == IF sep = 0 THEN 0 ELSE FindFrom(s, <<")">>, sep + 2)
    IN  IF at = 0 THEN <<>>
        ELSE IF close # 0 /\ \A i \in (at + 2)..(close - 1) : s[i] # NL
        THEN <<[at |-> at, sep |-> sep, close |-> close]>> \o image_refs(s, close + 1)
        ELSE image_refs(s, at + 1)

\* re.findall(image_pattern, content): the paths of the references
findall(s) ==
    [n \in 1..Len(image_refs(s, 1)) |->
        SubSeq(s, image_refs(s, 1)[n].sep + 2, image_refs(s, 1)[n].close - 1)]

\* img_path.startswith(('http://', 'https://'))
is_remote(path) ==
    \/ startswith(path, <<"h", "t", "t", "p", ":", "/", "/">>)
    \/ startswith(path, <<"h", "t", "t", "p", "s", ":", "/", "/">>)

\* f'![{alt}]({path})'
image_ref(alt, path) == <<"!", "[">> \o alt \o <<"]", "(">> \o path \o <<")">>

-----------------------------------------------------------------------------
(* os.path on POSIX *)

\* os.getcwd(), the directory the program was started in
cwd == <<"/", "w">>

\* os.path.dirname(p): p without its basename and, unless nothing but
\* slashes is left, without the slashes at its end
dirname(p) ==
    LET head == SubSeq(p, 1, Len(p) - Len(basename(p)))
        solid == {n \in 1..Len(head) : head[n] # "/"}
    IN  IF solid = {} THEN head
        ELSE SubSeq(head, 1, CHOOSE n \in solid : \A m \in solid : m <= n)

\* os.path.join(a, b)
path_join(a, b) ==
    IF startswith(b, <<"/">>) THEN b
    ELSE IF a = <<>> \/ a[Len(a)] = "/" THEN a \o b
    ELSE a \o <<"/">> \o b

\* p.split('/')
RECURSIVE split_slash(_, _)
split_slash(p, acc) ==
    IF p = <<>> THEN <<acc>>
    ELSE IF Head(p) = "/" THEN <<acc>> \o split_slash(Tail(p), <<>>)
    ELSE split_slash(Tail(p), Append(acc, Head(p)))

\* the components normpath keeps of an absolute path: '' and '.' go, '..'
\* takes the component before it or, at the root, goes too
RECURSIVE norm_comps(_, _)
norm_comps(comps, acc) ==
    IF comps = <<>> THEN acc
    ELSE IF Head(comps) \in {<<>>, <<".">>} THEN norm_comps(Tail(comps), acc)
    ELSE IF Head(comps) = <<".", ".">>
    THEN norm_comps(Tail(comps), SubSeq(acc, 1, Len(acc) - 1))
    ELSE norm_comps(Tail(comps), Append(acc, Head(comps)))

\* os.path.abspath(p): normpath of p joined to the working directory: the
\* components that are kept, joined by '/', after one slash, or two when the
\* path starts with exactly two
abspath(p) ==
    (IF startswith(path_join(cwd, p), <<"/", "/">>)
        /\ ~startswith(path_join(cwd, p), <<"/", "/", "/">>)
     THEN <<"/">> ELSE <<>>)
    \o concat([i \in 1..Len(norm_comps(split_slash(path_join(cwd, p), <<>>), <<>>)) |->
                  <<"/">> \o norm_comps(split_slash(path_join(cwd, p), <<>>), <<>>)[i]])
    \o (IF norm_comps(split_slash(path_join(cwd, p), <<>>), <<>>) = <<>>
        THEN <<"/">> ELSE <<>>)

-----------------------------------------------------------------------------
(* BlogEditor.save_blog *)

NoBlogSave ==
    [done |-> FALSE, status |-> "none", io |-> "none", src |-> <<>>, body |-> <<>>,
     paths |-> <<>>, copied |-> {}, failed |-> {}, cover |-> FALSE, before |-> <<>>,
     md |-> <<>>]

\* the loop over image_paths: a reference to the web is skipped; a copy that
\* succeeds (the paths of ok) rewrites every occurrence of the path in the
\* text to f"./{img_filename}"; a copy that raises leaves the text alone
RECURSIVE copy_images(_, _, _)
copy_images(paths, content, ok) ==
    IF paths = <<>> THEN content
    ELSE IF is_remote(Head(paths)) \/ Head(paths) \notin ok
    THEN copy_images(Tail(paths), content, ok)
    ELSE copy_images(Tail(paths),
                     replace(content, Head(paths), <<".", "/">> \o basename(Head(paths))),
                     ok)

\* the paths shutil.copy2 is called with
local_paths(paths) == {paths[i] : i \in {n \in 1..Len(paths) : ~is_remote(paths[n])}}

\* what a write that raises leaves of the text in the file opened with "w":
\* nothing, or a part of it
partial_writes(md) == {<<>>, SubSeq(md, 1, Len(md) \div 2)}

\* the save ends with the status st after the step io
save_ends(st, io, content, paths, ok, cover, body, md) ==
    [done |-> TRUE, status |-> st, io |-> io, src |-> content, body |-> body,
     paths |-> paths, copied |-> ok, failed |-> local_paths(paths) \ ok,
     cover |-> cover, before |-> disk_file, md |-> md]

\* the image loop is over with the text body: the cover image is copied, not
\* inside a try of its own, and index.md is opened and written once
save_index(content, paths, ok, body, md) ==
    \E io \in {"none", "cover", "open", "write"} :
        /\ io = "cover" => form.image_path # <<>>
        /\ bsave' = save_ends(IF io = "none" THEN "ok" ELSE "failed", io, content,
                              paths, ok, form.image_path # <<>> /\ io # "cover",
                              body, IF io = "cover" THEN <<>> ELSE md)
        /\ disk_file' \in (IF io = "none" THEN {md}
                           ELSE IF io = "write" THEN partial_writes(md)
                           ELSE {disk_file})

\* BlogEditor.save_blog.  An empty folder name ends it with a message.  Any
\* exception of makedirs, of the copy of the cover image, of open or of the
\* write is caught and shown in the status bar.  A copy can succeed only for
\* a path that names a file.  A run saves the article once.
BlogEditor_save_blog ==
    /\ ~bsave.done
    /\ IF strip(form.folder) = <<>>
       THEN /\ bsave' = [NoBlogSave EXCEPT !.done = TRUE, !.status = "no_folder",
                                           !.before = disk_file]
            /\ UNCHANGED disk_file
       ELSE \E content \in {toPlainText} : \E paths \in {findall(toPlainText)} :
            \/ /\ bsave' = save_ends("failed", "makedirs", content, <<>>, {}, FALSE,
                                     <<>>, <<>>)
               /\ UNCHANGED disk_file
            \/ \E ok \in SUBSET {q \in local_paths(paths) : basename(q) # <<>>} :
               \E body \in {copy_images(paths, content, ok)} :
                   save_index(content, paths, ok, body, md_content(form, body))
    /\ UNCHANGED <<edvars, saved, imported, form, preview, stats, chosen, unique, avars>>

-----------------------------------------------------------------------------
(* BlogEditor.update_preview *)

\* replace_path(match) with base_path given
replace_path(alt, path, base_path) ==
    IF is_remote(path) \/ startswith(path, <<"f", "i", "l", "e", ":", "/", "/", "/">>)
    THEN image_ref(alt, path)
    ELSE IF startswith(path, <<".", "/">>) \/ startswith(path, <<".", ".", "/">>)
    THEN image_ref(alt, <<"f", "i", "l", "e", ":", "/", "/", "/">>
                        \o abspath(path_join(base_path, path)))
    ELSE image_ref(alt, <<"f", "i", "l", "e", ":", "/", "/", "/">> \o abspath(path))

\* path_to_url(md), the references resolved against base_path:
\* re.sub(pattern, replace_path, md) over the matches refs puts before each
\* match the text since the match before it, then what replace_path returns
\* for its alternative text and its path, and after the last one the rest
sub_refs(md, refs, base_path) ==
    concat([n \in 1..Len(refs) |->
               SubSeq(md, IF n = 1 THEN 1 ELSE refs[n - 1].close + 1, refs[n].at - 1)
               \o replace_path(SubSeq(md, refs[n].at + 2, refs[n].sep - 1),
                               SubSeq(md, refs[n].sep + 2, refs[n].close - 1),
                               base_path)])
    \o SubSeq(md, IF refs = <<>> THEN 1 ELSE refs[Len(refs)].close + 1, Len(md))

path_to_url(md, base_path) == sub_refs(md, image_refs(md, 1), base_path)

\* BlogEditor.update_preview: out is the text handed to the Markdown converter
update_preview ==
    /\ preview' = [done |-> TRUE, src |-> toPlainText,
                   out |-> path_to_url(toPlainText, dirname(form.save_path))]
    /\ UNCHANGED <<edvars, fmvars, form, bsave, stats, chosen, unique, avars>>

-----------------------------------------------------------------------------
(* JSON: json.dump(current_metadata, f, ensure_ascii=False, indent=2) and json.load *)

JsonError == [kind |-> "json_error", str |-> <<>>, items |-> <<>>, fields |-> <<>>]

JsonFailed(v) == v.kind \in {"json_error", "unsupported"}

\* json.dumps(m, ensure_ascii=False, indent=2) of a dict of strings and lists
\* of strings with the keys, in the order they were inserted.  str(x) is x
\* written as a string: quoted, with '"', '\', line feed and tab escaped.
json_dumps(m, keys) ==
    LET esc(c) == IF c = "\"" THEN <<"\\", "\"">>
                  ELSE IF c = "\\" THEN <<"\\", "\\">>
                  ELSE IF c = NL THEN <<"\\", "n">>
                  ELSE IF c = "\t" THEN <<"\\", "t">>
                  ELSE <<c>>
        str(x) == <<"\"">> \o concat([i \in 1..Len(x) |-> esc(x[i])]) \o <<"\"">>
        items(xs) == concat([i \in 1..Len(xs) |->
                                Spaces(4) \o str(xs[i].str)
                                \o (IF i = Len(xs) THEN <<NL>> ELSE <<",", NL>>)])
        value(v) == IF v.kind = "str" THEN str(v.str)
                    ELSE IF v.items = <<>> THEN <<"[", "]">>
                    ELSE <<"[", NL>> \o items(v.items) \o Spaces(2) \o <<"]">>
    IN  IF keys = <<>> THEN <<"{", "}">>
        ELSE <<"{", NL>>
             \o concat([i \in 1..Len(keys) |->
                           Spaces(2) \o str(keys[i]) \o <<":", " ">> \o value(m.fields[keys[i]])
                           \o (IF i = Len(keys) THEN <<NL>> ELSE <<",", NL>>)])
             \o <<"}">>

\* the decoder skips white space between the tokens
RECURSIVE json_ws(_, _)
json_ws(t, j) ==
    IF j <= Len(t) /\ t[j] \in {" ", NL, "\t", "\r"} THEN json_ws(t, j + 1) ELSE j

\* a string whose opening quote stands before place j; acc is what was read.
\* The result is [v, n]: the value and the place after it.
RECURSIVE json_string(_, _, _)
json_string(t, j, acc) ==
    IF j > Len(t) THEN [v |-> JsonError, n |-> 0]
    ELSE IF t[j] = "\"" THEN [v |-> Str(acc), n |-> j + 1]
    ELSE IF t[j] \in {NL, "\t", "\r"} \/ (t[j] = "\\" /\ j = Len(t))
    THEN [v |-> JsonError, n |-> 0]
    ELSE IF t[j] # "\\" THEN json_string(t, j + 1, Append(acc, t[j]))
    ELSE IF t[j + 1] \in {"\"", "\\", "/"} THEN json_string(t, j + 2, Append(acc, t[j + 1]))
    ELSE IF t[j + 1] = "n" THEN json_string(t, j + 2, Append(acc, NL))
    ELSE IF t[j + 1] = "t" THEN json_string(t, j + 2, Append(acc, "\t"))
    ELSE IF t[j + 1] \in {"b", "f", "r", "u"} THEN [v |-> Unsupported, n |-> j]
    ELSE [v |-> JsonError, n |-> 0]

\* the items of an array of strings: r is the item read last, acc the items
\* before it; a ',' or the ']' follows
RECURSIVE json_array(_, _, _)
json_array(t, acc, r) ==
    IF JsonFailed(r.v) THEN r
    ELSE IF json_ws(t, r.n) > Len(t) THEN [v |-> JsonError, n |-> 0]
    ELSE IF t[json_ws(t, r.n)] = "]"
    THEN [v |-> List(Append(acc, r.v)), n |-> json_ws(t, r.n) + 1]
    ELSE IF t[json_ws(t, r.n)] # "," \/ json_ws(t, json_ws(t, r.n) + 1) > Len(t)
    THEN [v |-> JsonError, n |-> 0]
    ELSE IF t[json_ws(t, json_ws(t, r.n) + 1)] = "\""
    THEN json_array(t, Append(acc, r.v),
                    json_string(t, json_ws(t, json_ws(t, r.n) + 1) + 1, <<>>))
    ELSE IF t[json_ws(t, json_ws(t, r.n) + 1)] \in {",", "]", "}", ":"}
    THEN [v |-> JsonError, n |-> 0]
    ELSE [v |-> Unsupported, n |-> 0]

\* the value at place j: a string or an array of strings
json_value(t, j) ==
    IF j > Len(t) \/ t[j] \in {",", "]", "}", ":"} THEN [v |-> JsonError, n |-> 0]
    ELSE IF t[j] = "\"" THEN json_string(t, j + 1, <<>>)
    ELSE IF t[j] # "[" THEN [v |-> Unsupported, n |-> j]
    ELSE IF json_ws(t, j + 1) > Len(t) THEN [v |-> JsonError, n |-> 0]
    ELSE IF t[json_ws(t, j + 1)] = "]" THEN [v |-> List(<<>>), n |-> json_ws(t, j + 1) + 1]
    ELSE IF t[json_ws(t, j + 1)] = "\""
    THEN json_array(t, <<>>, json_string(t, json_ws(t, j + 1) + 1, <<>>))
    ELSE IF t[json_ws(t, j + 1)] \in {",", "}", ":"} THEN [v |-> JsonError, n |-> 0]
    ELSE [v |-> Unsupported, n |-> j]

\* the members of an object from place j on, where a key is due: kr is the
\* key and r the value
RECURSIVE json_members(_, _, _)

json_member(t, acc, kr, r) ==
    IF JsonFailed(r.v) THEN r
    ELSE IF json_ws(t, r.n) > Len(t) THEN [v |-> JsonError, n |-> 0]
    ELSE IF t[json_ws(t, r.n)] = "}"
    THEN [v |-> Map(Put(acc, kr.v.str, r.v)), n |-> json_ws(t, r.n) + 1]
    ELSE IF t[json_ws(t, r.n)] = ","
    THEN json_members(t, json_ws(t, json_ws(t, r.n) + 1), Put(acc, kr.v.str, r.v))
    ELSE [v |-> JsonError, n |-> 0]

json_key(t, acc, kr) ==
    IF JsonFailed(kr.v) THEN kr
    ELSE IF json_ws(t, kr.n) > Len(t) \/ t[json_ws(t, kr.n)] # ":"
    THEN [v |-> JsonError, n |-> 0]
    ELSE json_member(t, acc, kr, json_value(t, json_ws(t, json_ws(t, kr.n) + 1)))

json_members(t, j, acc) ==
    IF j > Len(t) \/ t[j] # "\"" THEN [v |-> JsonError, n |-> 0]
    ELSE json_key(t, acc, json_string(t, j + 1, <<>>))

\* json.loads(t): the value, or JsonError for a JSONDecodeError.  The
\* document is one value and nothing but white space after it.
json_loads(t) ==
    LET j == json_ws(t, 1)
        r == IF j > Len(t) THEN [v |-> JsonError, n |-> 0]
             ELSE IF t[j] # "{" THEN json_value(t, j)
             ELSE IF json_ws(t, j + 1) <= Len(t) /\ t[json_ws(t, j + 1)] = "}"
             THEN [v |-> Map(<<>>), n |-> json_ws(t, j + 1) + 1]
             ELSE json_members(t, json_ws(t, j + 1), <<>>)
    IN  IF JsonFailed(r.v) THEN r.v
        ELSE IF json_ws(t, r.n) <= Len(t) THEN JsonError
        ELSE r.v

-----------------------------------------------------------------------------
(* AutoSaver and BlogEditor._auto_save *)

\* the keys of current_metadata in the order the dict is built
MetaKeys ==
    <<k_title, k_description, <<"f", "o", "l", "d", "e", "r">>, <<"d", "a", "t", "e">>,
      k_tags, k_language, k_color,
      <<"i", "m", "a", "g", "e", "_", "p", "a", "t", "h">>>>

\* current_metadata of auto_save and _auto_save for the form f
current_metadata(f) ==
    Map([k \in {MetaKeys[i] : i \in 1..Len(MetaKeys)} |->
            IF k = k_title THEN Str(f.title)
            ELSE IF k = k_description THEN Str(f.description)
            ELSE IF k = MetaKeys[3] THEN Str(f.folder)
            ELSE IF k = MetaKeys[4] THEN Str(f.date)
            ELSE IF k = k_tags THEN List([i \in 1..Len(f.tags) |-> Str(f.tags[i])])
            ELSE IF k = k_language THEN Str(f.language)
            ELSE IF k = k_color THEN Str(f.color)
            ELSE Str(f.image_path)])

\* f.read() of a file opened in text mode: '\r\n' and '\r' are read as '\n'
RECURSIVE universal_newlines(_)
universal_newlines(t) ==
    IF t = <<>> THEN <<>>
    ELSE IF Head(t) = "\r"
    THEN <<NL>> \o universal_newlines(IF Len(t) > 1 /\ t[2] = NL THEN Tail(Tail(t))
                                      ELSE Tail(t))
    ELSE <<Head(t)>> \o universal_newlines(Tail(t))

\* the directory made by AutoSaver.__init__, no recovery file in it
NoFiles == [dir |-> TRUE, content |-> NoneVal, metadata |-> NoneVal]

NoTick ==
    [by |-> "none", equal |-> FALSE, writes |-> 0, io |-> "none", shown |-> <<>>,
     content |-> <<>>, metadata |-> PyNone]

\* AutoSaver.__init__: last_content = "", last_metadata = {}, and nothing
\* restored yet.  The configuration: config_manager.get('auto_save_content',
\* ''), get('auto_save_metadata', {}); written: the configuration file holds
\* them.  Its 'save_path' is what BlogEditor.__init__ took self.save_path
\* from, read from the file.
AutoInit ==
    /\ asaver = [last_content |-> <<>>, last_metadata |-> Map(<<>>), closed |-> FALSE,
                 failed |-> FALSE, ticks |-> 0, captured |-> {}]
    /\ afiles = NoFiles
    /\ atick = NoTick
    /\ restored = [done |-> FALSE, raised |-> FALSE, content |-> NoneVal,
                   metadata |-> PyNone, files |-> NoFiles, read_ok |-> FALSE,
                   tick |-> NoTick, closed |-> FALSE, failed |-> FALSE]
    /\ config = [content |-> <<>>, metadata |-> Map(<<>>), written |-> FALSE,
                 save_path |-> form.save_path, file_save_path |-> form.save_path]

\* the ways the two writes of auto_save can end: [io, writes, files, last].
\* io is the step that raised, writes the number of files opened for writing,
\* last whether last_content and last_metadata are updated.
auto_save_writes(content, metadata) ==
    {[io |-> "content_open", writes |-> 0, files |-> afiles, last |-> FALSE]}
    \cup
    (IF afiles.dir
     THEN {[io |-> "content_write", writes |-> 1,
            files |-> [afiles EXCEPT !.content = part], last |-> FALSE] :
              part \in partial_writes(content)}
          \cup
          {[io |-> "metadata_open", writes |-> 1,
            files |-> [afiles EXCEPT !.content = content], last |-> FALSE]}
          \cup
          {[io |-> "metadata_write", writes |-> 2,
            files |-> [afiles EXCEPT !.content = content, !.metadata = part],
            last |-> FALSE] :
              part \in partial_writes(json_dumps(metadata, MetaKeys))}
          \cup
          {[io |-> "none", writes |-> 2,
            files |-> [afiles EXCEPT !.content = content,
                                     !.metadata = json_dumps(metadata, MetaKeys)],
            last |-> TRUE]}
     ELSE {})

\* AutoSaver.auto_save, a tick of its timer: the text of toPlainText and the
\* metadata of the form are written when one of them differs from what was
\* written last; an exception goes to the error handler and the status bar.
\* A run follows one of the two timers.
AutoSaver_auto_save ==
    /\ ~asaver.closed /\ ~restored.done
    /\ asaver.ticks < MaxTicks /\ atick.by \in {"none", "AutoSaver"}
    /\ \E content \in {toPlainText} : \E metadata \in {current_metadata(form)} :
        IF content = asaver.last_content /\ metadata = asaver.last_metadata
        THEN /\ atick' = [by |-> "AutoSaver", equal |-> TRUE, writes |-> 0,
                          io |-> "none", shown |-> buffer, content |-> content,
                          metadata |-> metadata]
             /\ asaver' = [asaver EXCEPT !.ticks = @ + 1,
                                          !.captured = @ \cup {<<content, metadata>>}]
             /\ UNCHANGED afiles
        ELSE \E out \in auto_save_writes(content, metadata) :
             /\ atick' = [by |-> "AutoSaver", equal |-> FALSE, writes |-> out.writes,
                          io |-> out.io, shown |-> buffer, content |-> content,
                          metadata |-> metadata]
             /\ afiles' = out.files
             /\ asaver' = IF out.last
                          THEN [asaver EXCEPT !.last_content = content,
                                              !.last_metadata = metadata,
                                              !.ticks = @ + 1,
                                              !.captured = @ \cup {<<content, metadata>>}]
                          ELSE [asaver EXCEPT !.failed = TRUE, !.ticks = @ + 1,
                                              !.captured = @ \cup {<<content, metadata>>}]
    /\ UNCHANGED <<edvars, fmvars, wvars, restored, config>>

\* BlogEditor._auto_save, a tick of the second timer: text and metadata are
\* put in the configuration and the configuration is saved, every time.
\* ConfigManager.save_config writes the file whole, or open or the dump
\* raises and it returns False.  A file cut short is read as no
\* configuration at the next start: 'save_path' is ''.
BlogEditor_auto_save ==
    /\ ~asaver.closed /\ ~restored.done
    /\ asaver.ticks < MaxTicks /\ atick.by \in {"none", "BlogEditor"}
    /\ \E content \in {toPlainText} : \E metadata \in {current_metadata(form)} :
       \E io \in {"none", "config_open", "config_write"} :
        /\ atick' = [by |-> "BlogEditor",
                     equal |-> config.written /\ content = config.content
                                  /\ metadata = config.metadata,
                     writes |-> IF io = "config_open" THEN 0 ELSE 1,
                     io |-> io, shown |-> buffer, content |-> content,
                     metadata |-> metadata]
        /\ config' = [config EXCEPT !.content = content, !.metadata = metadata,
                                    !.written = (io = "none"),
                                    !.file_save_path = IF io = "none" THEN config.save_path
                                                       ELSE IF io = "config_write" THEN <<>>
                                                       ELSE @]
    /\ asaver' = [asaver EXCEPT !.ticks = @ + 1]
    /\ UNCHANGED <<edvars, fmvars, wvars, afiles, restored>>

\* a try_restore whose errors reach the caller
try_restore_unguarded(files, read_ok) ==
    IF files.content # NoneVal /\ files.metadata # NoneVal
    THEN IF read_ok /\ ~JsonFailed(json_loads(files.metadata))
         THEN [raised |-> FALSE, content |-> universal_newlines(files.content),
               metadata |-> json_loads(files.metadata)]
         ELSE [raised |-> TRUE, content |-> NoneVal, metadata |-> PyNone]
    ELSE [raised |-> FALSE, content |-> NoneVal, metadata |-> PyNone]

\* AutoSaver.try_restore against the recovery files; read_ok: both files can
\* be opened and decoded
try_restore(files, read_ok) ==
    IF files.content # NoneVal /\ files.metadata # NoneVal
       /\ read_ok /\ ~JsonFailed(json_loads(files.metadata))
    THEN [raised |-> FALSE, content |-> universal_newlines(files.content),
          metadata |-> json_loads(files.metadata)]
    ELSE [raised |-> FALSE, content |-> NoneVal, metadata |-> PyNone]

\* AutoSaver.try_restore is called: at the start of the next run, which finds
\* what this one left.  A run ends with it.
AutoSaver_try_restore ==
    /\ ~restored.done
    /\ \E read_ok \in BOOLEAN : \E r \in {try_restore(afiles, read_ok)} :
        restored' = [done |-> TRUE, raised |-> r.raised, content |-> r.content,
                     metadata |-> r.metadata, files |-> afiles, read_ok |-> read_ok,
                     tick |-> atick, closed |-> asaver.closed,
                     failed |-> asaver.failed]
    /\ UNCHANGED <<edvars, fmvars, wvars, asaver, afiles, atick, config>>

\* the user changes the title
edit_title(t) ==
    /\ ~asaver.closed /\ ~restored.done
    /\ form.title # t
    /\ form' = [form EXCEPT !.title = t]
    /\ UNCHANGED <<edvars, fmvars, bsave, preview, stats, chosen, unique, avars>>

\* BlogEditor.closeEvent: BlogEditor.save_config opens self.config_file, which
\* the window never sets, and its except prints the error: the configuration
\* file is left alone.  The cache and the recovery files are removed; a
\* removal that raises leaves them.
closeEvent ==
    /\ ~asaver.closed /\ ~restored.done
    /\ asaver' = [asaver EXCEPT !.closed = TRUE]
    /\ \E removed \in BOOLEAN :
        afiles' = IF removed /\ afiles.dir
                  THEN [dir |-> FALSE, content |-> NoneVal, metadata |-> NoneVal]
                  ELSE afiles
    /\ \E removed \in BOOLEAN :
        /\ cache_exists' = (cache_exists /\ ~removed)
        /\ cache_files' = IF removed THEN <<>> ELSE cache_files
    /\ last' = [op |-> "closeEvent", text |-> <<>>, ret |-> NoneVal, io |-> "none",
                evicted |-> <<>>, first_key |-> NoneVal]
    /\ UNCHANGED <<buffer, current_cache_key, clock, nwrites, io_failed, fmvars,
                   wvars, atick, restored, config>>

-----------------------------------------------------------------------------
(* MarkdownEditor.update_statistics *)

\* c.isalpha(): the letters of every script, the Chinese characters among
\* them; no digit, no space, no punctuation.  Z and W stand for two
\* characters c with '\u4e00' <= c <= '\u9fff'.
isalpha(c) == c \in {"a", "b", "Z", "W"}

\* text.split(): the runs of characters between whitespace, none of them empty
RECURSIVE split(_, _)
split(t, acc) ==
    IF t = <<>> THEN (IF acc = <<>> THEN <<>> ELSE <<acc>>)
    ELSE IF Head(t) \in Whitespace
    THEN (IF acc = <<>> THEN <<>> ELSE <<acc>>) \o split(Tail(t), <<>>)
    ELSE split(Tail(t), Append(acc, Head(t)))

\* MarkdownEditor.update_statistics: chinese_count is the number of Chinese
\* characters of the text, english_words the number of tokens of the text
\* that hold a character with isalpha(), word_count their sum
update_statistics ==
    /\ \E text \in {toPlainText} : \E words \in {split(toPlainText, <<>>)} :
        stats' = [done |-> TRUE, text |-> text,
                  chinese_count |-> Cardinality({i \in 1..Len(text) : text[i] \in {"Z", "W"}}),
                  english_words |->
                      Cardinality({n \in 1..Len(words) :
                                      \E i \in 1..Len(words[n]) : isalpha(words[n][i])}),
                  word_count |->
                      Cardinality({i \in 1..Len(text) : text[i] \in {"Z", "W"}})
                      + Cardinality({n \in 1..Len(words) :
                                        \E i \in 1..Len(words[n]) : isalpha(words[n][i])})]
    /\ UNCHANGED <<edvars, fmvars, form, bsave, preview, chosen, unique, avars>>

\* BlogEditor.select_save_path: the dialog returns directory, '' when it is
\* cancelled; a directory becomes self.save_path and the text of path_input.
\* Nothing is put in config_manager.config; save_config() writes the
\* configuration as it is, or open or the dump raises (io) and it returns
\* False.
select_save_path(directory) ==
    /\ IF directory = <<>>
       THEN /\ chosen' = [done |-> TRUE, directory |-> directory, io |-> "none"]
            /\ UNCHANGED <<form, config>>
       ELSE \E io \in {"none", "config_open", "config_write"} :
            /\ chosen' = [done |-> TRUE, directory |-> directory, io |-> io]
            /\ form' = [form EXCEPT !.save_path = directory]
            /\ config' = [config EXCEPT !.file_save_path =
                                            IF io = "none" THEN config.save_path
                                            ELSE IF io = "config_write" THEN <<>>
                                            ELSE @]
    /\ UNCHANGED <<edvars, fmvars, bsave, preview, stats, unique, asaver, afiles,
                   atick, restored>>

-----------------------------------------------------------------------------
(* FileManager.ensure_unique_filename *)

\* f"{name}_{counter}{ext}" with name, ext = os.path.splitext(filename), for a
\* filename without a slash: ext starts at the last dot, unless nothing but
\* dots stands before it
numbered(filename, counter) ==
    LET dots == {i \in 1..Len(filename) : filename[i] = "."}
        dot == CHOOSE i \in dots : \A j \in dots : j <= i
        cut == IF dots # {} /\ (\E j \in 1..(dot - 1) : filename[j] # ".")
               THEN dot ELSE Len(filename) + 1
        RECURSIVE str(_)
        str(n) == IF n < 10 THEN <<ToString(n)>>
                  ELSE str(n \div 10) \o <<ToString(n % 10)>>
    IN  SubSeq(filename, 1, cut - 1) \o <<"_">> \o str(counter)
        \o SubSeq(filename, cut, Len(filename))

\* an ensure_unique_filename that tries the first numbered name and no other
ensure_unique_filename_once(folder, filename, new_filename, counter) ==
    IF new_filename \in folder THEN numbered(filename, counter) ELSE new_filename

\* the loop of ensure_unique_filename, entered with new_filename = filename
\* and counter = 1: while os.path.exists(os.path.join(folder_path,
\* new_filename)), for the folder that holds the names of folder
RECURSIVE ensure_unique_filename(_, _, _, _)
ensure_unique_filename(folder, filename, new_filename, counter) ==
    IF new_filename \in folder
    THEN ensure_unique_filename(folder, filename, numbered(filename, counter),
                                counter + 1)
    ELSE new_filename

\* FileManager.ensure_unique_filename(folder_path, filename) is called
FileManager_ensure_unique_filename(folder, filename) ==
    /\ unique' = [done |-> TRUE, folder |-> folder, filename |-> filename,
                  returned |-> ensure_unique_filename(folder, filename, filename, 1)]
    /\ UNCHANGED <<edvars, fmvars, form, bsave, preview, stats, chosen, avars>>

\* the window before any of its tools was used
ToolsInit ==
    /\ preview = [done |-> FALSE, src |-> <<>>, out |-> <<>>]
    /\ unique = [done |-> FALSE, folder |-> {}, filename |-> <<>>, returned |-> <<>>]
    /\ chosen = [done |-> FALSE, directory |-> <<>>, io |-> "none"]
    /\ stats = [done |-> FALSE, text |-> <<>>, chinese_count |-> 0, english_words |-> 0,
                word_count |-> 0]

-----------------------------------------------------------------------------
(* The articles that are saved *)

\* a form as the window holds it after the fields were filled in
DefaultForm ==
    [title |-> <<"a">>, date |-> <<"2", "0", "2", "4", "-", "0", "1", "-", "0", "1">>,
     description |-> <<"a">>, tags |-> << <<"a">> >>,
     language |-> <<"E", "n", "g", "l", "i", "s", "h">>, image_path |-> <<>>, color |-> <<"#", "F">>, folder |-> <<"f">>,
     save_path |-> <<"/", "r", "/", "p">>]

\* forms that differ from it in one field
Forms ==
    {[DefaultForm EXCEPT !.title = t] : t \in StrVals}
    \cup {[DefaultForm EXCEPT !.description = d] : d \in {<<>>, <<"'">>, <<":", " ">>}}
    \cup {[DefaultForm EXCEPT !.tags = g] : g \in {<<>>, << <<"a">>, <<"b">> >>}}
    \cup {[DefaultForm EXCEPT !.language = <<"Z", "W">>]}
    \cup {[DefaultForm EXCEPT !.image_path = <<"/", "c">>]}
    \cup {[DefaultForm EXCEPT !.folder = <<" ">>]}

\* the forms with a body of plain text, and the bodies of references.  The
\* paths of the references: two local files, one name the start of the
\* other, two files named relative to the article, and an image of the web.
SaveInputs ==
    {[form |-> f, body |-> b] : f \in Forms, b \in {<<>>, <<"a">>, <<"a", NL>>}}
    \cup {[form |-> f, body |-> b] :
            f \in {DefaultForm, [DefaultForm EXCEPT !.image_path = <<"/", "c">>]},
            b \in Compose({image_ref(<<>>, q) :
                              q \in {<<"/", "p">>, <<"/", "p", "q">>, <<".", "/", "c">>,
                                     <<".", ".", "/", "c">>,
                                     <<"h", "t", "t", "p", ":", "/", "/", "h", "/", "p">>}},
                          MaxRefs)}

-----------------------------------------------------------------------------
(* Specifications *)

Init ==
    /\ EditorInit
    /\ disk_file = <<>>
    /\ saved = NoSave
    /\ imported = NoImport
    /\ form = DefaultForm
    /\ bsave = NoBlogSave
    /\ ToolsInit
    /\ AutoInit

Next ==
    \/ \E text \in Texts : setPlainText(text) /\ UNCHANGED <<fmvars, wvars, avars>>
    \/ \E c \in Alphabet : insertText(c) /\ UNCHANGED <<fmvars, wvars, avars>>
    \/ Tick /\ UNCHANGED <<fmvars, wvars, avars>>
    \/ cleanup /\ UNCHANGED <<fmvars, wvars, avars>>

Spec == Init /\ [][Next]_vars

\* the frontmatter of a document on disk: saved by FileManager, imported by
\* FileManager and by the editor
InitFM ==
    /\ EditorInit
    /\ disk_file \in RawDocs
    /\ saved = NoSave
    /\ imported = NoImport
    /\ form = DefaultForm
    /\ bsave = NoBlogSave
    /\ ToolsInit
    /\ AutoInit

NextFM ==
    \/ \E content \in Bodies : \E metadata \in Metas :
           FileManager_save_blog(content, metadata) /\ UNCHANGED <<wvars, avars>>
    \/ FileManager_import_markdown /\ UNCHANGED <<wvars, avars>>
    \/ MarkdownEditor_import_markdown /\ UNCHANGED <<wvars, avars>>

SpecFM == InitFM /\ [][NextFM]_vars

\* the window with its form filled in and a body typed into the editor: the
\* article is saved by BlogEditor, previewed, and its index.md imported again
InitSave ==
    /\ \E x \in SaveInputs :
        /\ form = x.form
        /\ buffer = x.body
    /\ current_cache_key = NoneVal
    /\ cache_exists = TRUE
    /\ cache_files = <<>>
    /\ clock = 0
    /\ nwrites = 0
    /\ io_failed = FALSE
    /\ last = [op |-> "init", text |-> <<>>, ret |-> NoneVal, io |-> "none",
               evicted |-> <<>>, first_key |-> NoneVal]
    /\ disk_file = <<>>
    /\ saved = NoSave
    /\ imported = NoImport
    /\ bsave = NoBlogSave
    /\ ToolsInit
    /\ AutoInit

NextSave ==
    \/ BlogEditor_save_blog
    \/ update_preview
    \/ FileManager_import_markdown /\ UNCHANGED <<wvars, avars>>

SpecSave == InitSave /\ [][NextSave]_vars

\* the window is edited while the two autosave timers tick; the recovery
\* files are read at the end.  A run gives the editor a text at most once,
\* before anything is typed.
NextAuto ==
    \/ \E text \in {<<"a">>} :
           last.op = "init" /\ setPlainText(text) /\ UNCHANGED <<fmvars, wvars, avars>>
    \/ \E c \in {"b"} : insertText(c) /\ UNCHANGED <<fmvars, wvars, avars>>
    \/ \E t \in {<<"a">>, <<"\"">>} : edit_title(t)
    \/ AutoSaver_auto_save
    \/ BlogEditor_auto_save
    \/ AutoSaver_try_restore
    \/ closeEvent

SpecAuto == Init /\ [][NextAuto]_vars

\* the tools of the window: a text is typed, Chinese characters, letters,
\* digits and spaces, and the statistics are updated after any change; a
\* directory to save in is picked, or the dialog cancelled.  Or a unique
\* name is asked for, once, in a folder that holds some of the names asked
\* for and of their numbered forms.
NextTools ==
    \/ /\ ~unique.done
       /\ \/ \E c \in {"a", "1", " ", "Z"} :
                 insertText(c) /\ UNCHANGED <<fmvars, wvars, avars>>
          \/ update_statistics
          \/ \E directory \in {<<>>, <<"/", "d">>} : select_save_path(directory)
    \/ /\ ~unique.done /\ last.op = "init" /\ ~stats.done /\ ~chosen.done
       /\ \E names \in {{<<"a", ".", "b">>, <<".", "b">>, <<"a">>}} :
          \E filename \in names :
          \E folder \in SUBSET UNION {{f} \cup {numbered(f, k) : k \in 1..MaxFiles} :
                                        f \in names} :
              FileManager_ensure_unique_filename(folder, filename)

SpecTools == Init /\ [][NextTools]_vars

-----------------------------------------------------------------------------
(* Claims about the cache-backed editor, checked under Spec *)

\* C1: read-after-write.  In the state right after setPlainText(T), whatever
\* happened before and whether the cache write succeeded, failed or the entry
\* is already gone, toPlainText() returns exactly T.
C1_ReadAfterWrite ==
    last.op = "setPlainText" => toPlainText = last.text

\* C1 witness: a key was returned for a non-empty T, its entry is already
\* missing (a cache miss right after the write) and the read returns T
C1_Witness ==
    /\ last.op = "setPlainText"
    /\ last.text # <<>>
    /\ current_cache_key # NoneVal
    /\ load_from_cache(current_cache_key) = NoneVal
    /\ toPlainText = last.text

\* C2: a stale cache entry is never served: in every reachable state
\* toPlainText() returns the editor's current text buffer.
C2_StaleNeverServed ==
    toPlainText = buffer

\* C3: cache round trip.  After a save_to_cache(T), no I/O error having
\* occurred in this or any earlier call, load_from_cache of the key it returned
\* gives exactly T.
C3_CacheRoundTrip ==
    (last.op = "setPlainText" /\ ~io_failed)
        => load_from_cache(last.ret) = last.text

\* C4: save_to_cache is idempotent on key.  When T is saved without I/O error
\* while the entry of an earlier error-free save of T is still resident (no
\* call in between failed or evicted it), the key returned is the key returned
\* the first time, whatever the clock and the number of writes made in between,
\* and the directory holds exactly one entry for T.
C4_IdempotentKey ==
    (last.op = "setPlainText" /\ last.io = "none" /\ last.first_key # NoneVal)
        => /\ last.ret = last.first_key
           /\ Cardinality(Entries(cache_files, last.text)) = 1

\* C4 witness: a second save of a non-empty T, made at a later time than the
\* first and with another entry resident
C4_Witness ==
    /\ last.op = "setPlainText"
    /\ last.io = "none"
    /\ last.text # <<>>
    /\ last.first_key # NoneVal
    /\ last.ret = last.first_key
    /\ Cardinality(DOMAIN cache_files) = cache_size
    /\ \E k \in DOMAIN cache_files : cache_files[k].mtime < clock

\* C5: bounded, recency-evicted cache.  After a save_to_cache call, no I/O
\* error having occurred in this or any earlier call, at most cache_size
\* entries are resident, and they are the most recently inserted ones: every
\* entry the call removed was written before every entry it kept.
C5_BoundedMostRecent ==
    (last.op = "setPlainText" /\ ~io_failed)
        => /\ Cardinality(DOMAIN cache_files) <= cache_size
           /\ \A e \in DOMAIN last.evicted : \A k \in DOMAIN cache_files :
                  last.evicted[e].seq < cache_files[k].seq

\* C6: a cache write failure does not fail or corrupt the document write.
\* When the write of the cache file raises in setPlainText(T) (the key cannot
\* be computed, the file cannot be opened, or the write stops part-way), the
\* call still completes, current_cache_key is None, the buffer holds T and
\* toPlainText() returns T.
C6_WriteFailureFallsBack ==
    (last.op = "setPlainText" /\ last.io \in {"open", "write"})
        => /\ current_cache_key = NoneVal
           /\ buffer = last.text
           /\ toPlainText = last.text

\* C6 witness: the write of a non-empty T stopped part-way and left an
\* unreadable file under T's key; the read still returns T
C6_Witness ==
    /\ last.op = "setPlainText"
    /\ last.io = "write"
    /\ last.text # <<>>
    /\ get_cache_key(last.text) \in DOMAIN cache_files
    /\ ~cache_files[get_cache_key(last.text)].ok
    /\ current_cache_key = NoneVal
    /\ toPlainText = last.text

\* C25: a cache miss is no error.  load_from_cache returns None for a file
\* that holds no complete document, and when the entry under
\* current_cache_key is gone or cannot be read, toPlainText() returns the
\* editor's own text.
C25_CacheMissIsNoError ==
    /\ \A k \in DOMAIN cache_files :
           ~cache_files[k].ok => load_from_cache(k) = NoneVal
    /\ (/\ current_cache_key # NoneVal
        /\ \/ ~cache_exists
           \/ current_cache_key \notin DOMAIN cache_files
           \/ ~cache_files[current_cache_key].ok)
           => /\ load_from_cache(current_cache_key) = NoneVal
              /\ toPlainText = buffer

\* C25 witness: the entry of the key on record was evicted, a file that was
\* written part-way lies in the directory, and the read returns the text
\* of the editor
C25_Witness ==
    /\ current_cache_key # NoneVal
    /\ cache_exists
    /\ current_cache_key \notin DOMAIN cache_files
    /\ \E k \in DOMAIN cache_files : ~cache_files[k].ok
    /\ buffer # <<>>
    /\ toPlainText = buffer

\* C26: the purge is safe at any point.  TextCache.cleanup() ends without an
\* exception, with or without a cache directory, and when no exception was
\* swallowed the directory is gone; after a purge every setPlainText(T) still
\* completes, without a cache entry, and toPlainText() returns T.
C26_PurgeIsSafe ==
    /\ last.op = "cleanup" =>
           /\ last.ret = NoneVal
           /\ last.io = "none" => (~cache_exists /\ cache_files = <<>>)
    /\ (last.op = "setPlainText" /\ ~cache_exists) =>
           /\ last.ret = NoneVal
           /\ current_cache_key = NoneVal
           /\ toPlainText = last.text

\* C26 witness: the directory was purged and not made again, a text was set
\* after that and is read back from the editor
C26_Witness ==
    /\ last.op = "setPlainText"
    /\ ~cache_exists
    /\ last.text # <<>>
    /\ current_cache_key = NoneVal
    /\ toPlainText = last.text

\* C27: the eviction a put runs never removes the entry the put wrote.  After
\* a setPlainText that succeeded, no file operation of the session having
\* failed, the file of current_cache_key is in the cache directory.
C27_PutSurvivesOwnEviction ==
    (last.op = "setPlainText" /\ last.io = "none" /\ ~io_failed)
        => /\ current_cache_key # NoneVal
           /\ cache_exists
           /\ current_cache_key \in DOMAIN cache_files

-----------------------------------------------------------------------------
(* Claims about the frontmatter, checked under SpecFM *)

\* C7: frontmatter round trip.  When FileManager.import_markdown reads the
\* index.md that FileManager.save_blog wrote whole from a metadata mapping M
\* and a body B that does not start with '---', it returns exactly (B, M).
C7_FrontmatterRoundTrip ==
    (imported.by = "FileManager" /\ imported.from_save)
        => /\ ~imported.raised
           /\ imported.body = saved.content
           /\ imported.meta = saved.metadata

\* C8: no content is lost on a failed frontmatter parse.  When the document
\* read starts with '---' and has no second '---', or the text between the
\* two delimiters does not parse, the import returns absent metadata and a
\* body equal to the whole document, leading delimiter included.
C8_FailedParseKeepsAll ==
    (/\ imported.by # "none" /\ imported.read_ok
     /\ startswith(imported.src, Delim)
     /\ \/ Len(split_delim(imported.src)) < 3
        \/ yaml_safe_load(split_delim(imported.src)[2]) = YamlError)
        => /\ ~imported.raised
           /\ imported.meta = PyNone
           /\ imported.body = imported.src

\* C9: the split never raises.  Whatever document was read, the import
\* returns (FileManager) or loads the body (editor); it does not end in a
\* FileOperationError or an aborted import.
C9_SplitNeverRaises ==
    (imported.by # "none" /\ imported.read_ok) => ~imported.raised

\* C10: a document that does not begin with '---' comes back as the body
\* character for character, leading and trailing whitespace included, with
\* absent metadata.
C10_NoFrontmatterVerbatim ==
    (/\ imported.by # "none" /\ imported.read_ok
     /\ ~startswith(imported.src, Delim))
        => /\ ~imported.raised
           /\ imported.meta = PyNone
           /\ imported.body = imported.src

\* C24: when the editor imports a document with a frontmatter block, the
\* metadata reaches the window exactly when the block parses: either the
\* window got the mapping and the editor the text after the second
\* delimiter, or the window got nothing and the editor the block, the
\* delimiter and the text after it.
C24_MetadataReachesListener ==
    (/\ imported.by = "MarkdownEditor" /\ ~imported.raised
     /\ startswith(imported.src, Delim)
     /\ Len(split_delim(imported.src)) >= 3)
        => IF Failed(yaml_safe_load(split_delim(imported.src)[2]))
           THEN /\ imported.meta = PyNone
                /\ imported.body = strip(split_delim(imported.src)[2] \o Delim
                                         \o split_delim(imported.src)[3])
           ELSE /\ imported.meta = yaml_safe_load(split_delim(imported.src)[2])
                /\ imported.body = strip(split_delim(imported.src)[3])

-----------------------------------------------------------------------------
(* Claims about BlogEditor.save_blog and update_preview *)

\* C11: when the index.md that BlogEditor.save_blog wrote is read and split
\* again by FileManager.import_markdown, the import returns the title, the
\* description, the tags, the language and the cover image source and colour
\* of the form, and the body that was written.  (A form without tags may come
\* back with no value for the tags.)
C11_SaveImportRoundTrip ==
    (bsave.status = "ok" /\ imported.by = "FileManager" /\ imported.read_ok
        /\ imported.src = bsave.md)
    => /\ ~imported.raised
       /\ imported.body = bsave.body
       /\ imported.meta.kind = "map"
       /\ \A k \in {k_title, k_description, k_tags, k_language, k_heroImage} :
              /\ k \in DOMAIN imported.meta.fields
              /\ \/ imported.meta.fields[k] = frontmatter(form).fields[k]
                 \/ k = k_tags /\ form.tags = <<>> /\ imported.meta.fields[k] = PyNone

\* C12: the references to the web ('http://', 'https://') have the same
\* targets, in the same order, in the body update_preview rewrote and in the
\* body save_blog wrote as in the text of the editor, whatever other
\* references the text holds, and none of them is copied.
C12_RemoteUntouched ==
    /\ preview.done =>
           SelectSeq(findall(preview.out), is_remote)
               = SelectSeq(findall(preview.src), is_remote)
    /\ bsave.status = "ok" =>
           /\ SelectSeq(findall(bsave.body), is_remote)
                  = SelectSeq(findall(bsave.src), is_remote)
           /\ \A q \in bsave.copied : ~is_remote(q)

\* C13: update_preview resolves a reference that starts with './' or '../'
\* against the save directory itself: the text it produces is the one
\* path_to_url gives with the save path as base.
C13_PreviewResolvesInSaveDir ==
    preview.done => preview.out = path_to_url(preview.src, form.save_path)

\* C14: in the body save_blog writes, every reference whose copy failed has
\* exactly the path it had in the editor, whatever other references were
\* copied and rewritten.
C14_FailedCopyKeepsReference ==
    bsave.status = "ok" =>
        /\ Len(findall(bsave.body)) = Len(bsave.paths)
        /\ \A i \in 1..Len(bsave.paths) :
               bsave.paths[i] \in bsave.failed => findall(bsave.body)[i] = bsave.paths[i]

\* C15: a save in which nothing but copies of images failed, of the body or
\* of the cover, is not aborted: index.md is written with the whole text.
C15_CopyFailureNeverAborts ==
    (bsave.done /\ bsave.io \in {"none", "cover"} /\ bsave.status # "no_folder")
    => bsave.status = "ok" /\ disk_file = md_content(form, bsave.body)

\* C16: after a save, failed or not, index.md holds either the whole new text
\* or what it held before.
C16_NeverPartial ==
    bsave.done => disk_file \in {bsave.before, md_content(form, bsave.body)}

\* C22: in the body save_blog writes, every reference to a local image whose
\* copy succeeded has exactly the path './' followed by the base name of the
\* path it had in the editor, also when one path is part of another or a
\* path occurs several times.
C22_CopiedBecomesDotSlashName ==
    bsave.status = "ok" =>
        /\ Len(findall(bsave.body)) = Len(bsave.paths)
        /\ \A i \in 1..Len(bsave.paths) :
               bsave.paths[i] \in bsave.copied =>
                   findall(bsave.body)[i] = <<".", "/">> \o basename(bsave.paths[i])

\* C23: in the body save_blog writes, every reference whose path starts with
\* './' or '../' has the path it had in the editor, whether or not a file of
\* that name exists and is copied.
C23_RelativeLeftAsIs ==
    bsave.status = "ok" =>
        /\ Len(findall(bsave.body)) = Len(bsave.paths)
        /\ \A i \in 1..Len(bsave.paths) :
               (\/ startswith(bsave.paths[i], <<".", "/">>)
                \/ startswith(bsave.paths[i], <<".", ".", "/">>))
                   => findall(bsave.body)[i] = bsave.paths[i]

-----------------------------------------------------------------------------
(* Claims about the errors of FileManager.save_blog *)

\* C17: when the save path is not set, the folder cannot be created or the
\* file cannot be opened or written, the caller of FileManager.save_blog gets
\* a FileOperationError whose message names the cause; the call returns no
\* value and raises no other kind of error.
C17_SaveFailsWithFileOperationError ==
    (saved.done /\ saved.fail # "none") =>
        /\ saved.error = "FileOperationError"
        /\ saved.returned = "nothing"
        /\ saved.message = <<m_save_failed>> \o raised_in_save(saved.fail).message
        /\ raised_in_save(saved.fail).message # <<>>

\* a write of index.md failed part-way and the caller got the error
C17_Witness ==
    /\ saved.done /\ saved.fail = "write" /\ disk_file # <<>>
    /\ saved.error = "FileOperationError"

-----------------------------------------------------------------------------
(* Claims about the autosave *)

\* C18: an autosave tick that finds the text and the metadata equal to the
\* snapshot written last writes no file.
C18_NoWriteWhenUnchanged ==
    (atick.by # "none" /\ atick.equal) => atick.writes = 0

\* C19: when a tick of AutoSaver ran without I/O failure, in a run whose
\* autosaves never failed and whose window is still open, and the recovery
\* files are read without failure, try_restore returns the text the editor
\* showed at that tick and the metadata of that tick.
C19_RestoreReturnsTickText ==
    (restored.done /\ restored.tick.by = "AutoSaver" /\ restored.tick.io = "none"
        /\ ~restored.failed /\ ~restored.closed /\ restored.read_ok)
    => /\ restored.content = restored.tick.shown
       /\ restored.metadata = restored.tick.metadata

\* C20: try_restore never raises; it returns the text and the metadata when
\* both recovery files exist, can be read and the metadata can be parsed, and
\* (None, None) in every other case.
C20_TryRestoreNeverRaises ==
    restored.done =>
        /\ ~restored.raised
        /\ IF /\ restored.files.content # NoneVal
              /\ restored.files.metadata # NoneVal
              /\ restored.read_ok
              /\ ~JsonFailed(json_loads(restored.files.metadata))
           THEN /\ restored.content = universal_newlines(restored.files.content)
                /\ restored.metadata = json_loads(restored.files.metadata)
           ELSE restored.content = NoneVal /\ restored.metadata = PyNone

\* both recovery files exist and can be read, metadata.json is cut short:
\* try_restore returned (None, None)
C20_Witness ==
    /\ restored.done /\ restored.read_ok
    /\ restored.files.content # NoneVal /\ restored.files.metadata # NoneVal
    /\ JsonFailed(json_loads(restored.files.metadata))
    /\ restored.content = NoneVal /\ ~restored.raised

\* C28: the two recovery files describe one tick.  Whenever try_restore
\* returns a text and a metadata mapping, the two files it read hold a text
\* and the metadata that one tick of AutoSaver captured together.
C28_RecoveryFilesSameTick ==
    (restored.done /\ restored.content # NoneVal)
        => \E p \in asaver.captured :
               /\ restored.files.content = p[1]
               /\ restored.files.metadata = json_dumps(p[2], MetaKeys)

-----------------------------------------------------------------------------
(* Claims about the tools of the window, checked under SpecTools *)

\* C21: the word count is the number of Chinese characters plus the number of
\* whitespace-delimited tokens counted as words, where a token made only of
\* Chinese characters adds to the character count and not to the token count
\* (for two Chinese characters, a space and two words: 2, 2 and 4).
C21_WordCount ==
    stats.done =>
        LET words == split(stats.text, <<>>)
            cjk == Cardinality({i \in 1..Len(stats.text) : stats.text[i] \in {"Z", "W"}})
            tokens == Cardinality({n \in 1..Len(words) :
                                     \E i \in 1..Len(words[n]) :
                                         words[n][i] \in {"a", "b"}})
        IN  /\ stats.chinese_count = cjk
            /\ stats.english_words = tokens
            /\ stats.word_count = cjk + tokens

\* C29: the directory picked is persisted.  After select_save_path took a
\* directory D, the configuration's 'save_path', which FileManager.save_blog
\* reads, is D, and unless writing the file failed the configuration file
\* holds D for the next start.
C29_SavePathPersisted ==
    (chosen.done /\ chosen.directory # <<>>)
        => /\ form.save_path = chosen.directory
           /\ config.save_path = chosen.directory
           /\ chosen.io = "none" => config.file_save_path = chosen.directory

\* C30: ensure_unique_filename returns a name that is not in the folder: the
\* name it was given when that is free, otherwise the name with '_k' before
\* its extension for the smallest k >= 1 that is free.
C30_UniqueFilename ==
    unique.done =>
        /\ unique.returned \notin unique.folder
        /\ unique.filename \notin unique.folder => unique.returned = unique.filename
        /\ unique.filename \in unique.folder =>
               \E k \in 1..(Cardinality(unique.folder) + 1) :
                   /\ unique.returned = numbered(unique.filename, k)
                   /\ \A j \in 1..(k - 1) : numbered(unique.filename, j) \in unique.folder

\* C30 witness: the name and its first numbered form are taken, the second
\* numbered form is returned
C30_Witness ==
    /\ unique.done
    /\ unique.filename \in unique.folder
    /\ numbered(unique.filename, 1) \in unique.folder
    /\ unique.returned = numbered(unique.filename, 2)
    /\ unique.returned \notin unique.folder

====
